---- MODULE Spec2Model ----
(***************************************************************************)
(* Model of jkj_handbook_generator.py: a one-shot script that registers    *)
(* three TrueType fonts, declares a fixed sequence of flowables and hands  *)
(* it to SimpleDocTemplate.build together with the page decorator on_page. *)
(*                                                                         *)
(* Lengths are integers in units of 1/9144 inch, in which both the point   *)
(* (1/72 inch) and the millimetre (5/127 inch) are whole numbers.          *)
(***************************************************************************)
EXTENDS Integers, Sequences, FiniteSets, TLC

pt == 127
mm == 360

\* ---- bounds of the model ----
MaxGlyphScale == 5      \* glyph-width classes of the font files (environment)

\* ---- line 27, 45 ----
OUT_PDF == "Jujutsu_Kaisen_The_Cursed_Energy_Handbook.pdf"
PAGE_WIDTH == 210 * mm
PAGE_HEIGHT == 297 * mm

\* ---- lines 30-36: the fonts the script declares, in registration order ----
FontDecls ==
  << [name |-> "SourceSans",      file |-> "DejaVuSans.ttf"],
     [name |-> "SourceSans-Bold", file |-> "DejaVuSans-Bold.ttf"],
     [name |-> "SourceSerif",     file |-> "DejaVuSerif.ttf"] >>

AllFontFiles == { FontDecls[i].file : i \in DOMAIN FontDecls }

\* Fonts the library knows without registration (Table cells default to one).
StandardFonts == { "Helvetica", "Helvetica-Bold", "Times-Roman", "Courier" }

\* try: registerFont x3 / except: pass.  The first missing file raises, the
\* remaining registrations are skipped and the exception is swallowed.
RegisterFonts(files) ==
  { FontDecls[i].name : i \in { k \in DOMAIN FontDecls :
                                  \A j \in 1..k : FontDecls[j].file \in files } }

\* ---- lines 63-70: page geometry of the document template ----
leftMargin == 20 * mm
rightMargin == 20 * mm
topMargin == 25 * mm
bottomMargin == 25 * mm

\* The single frame SimpleDocTemplate.build creates from the margins; the
\* frame keeps the library's 6 pt padding on every side.
FramePadding == 6 * pt
FrameBottom == bottomMargin + FramePadding
FrameTop == PAGE_HEIGHT - topMargin - FramePadding
FrameWidth == PAGE_WIDTH - leftMargin - rightMargin - 2 * FramePadding
UsableWidth == PAGE_WIDTH - leftMargin - rightMargin

\* ---- lines 73-81: paragraph styles ----
Style(fontName, fontSize, leading, spaceBefore, spaceAfter) ==
  [fontName |-> fontName, fontSize |-> fontSize, leading |-> leading * pt,
   spaceBefore |-> spaceBefore * pt, spaceAfter |-> spaceAfter * pt]

styles ==
  [ h1          |-> Style("SourceSans-Bold", 28, 34, 0, 6),
    h2          |-> Style("SourceSans-Bold", 18, 22, 8, 0),
    normal      |-> Style("SourceSans", 11, 15, 0, 0),
    em          |-> Style("SourceSans", 11, 15, 0, 0),
    toc         |-> Style("SourceSans", 12, 16, 0, 0),
    cover_title |-> Style("SourceSans-Bold", 36, 42, 0, 0),
    subtitle    |-> Style("SourceSans", 14, 18, 0, 0) ]

\* ---- flowable constructors ----
\* A text is the sequence of its segments separated by <br/>; a segment is
\* given by its length in characters (markup removed, white space collapsed,
\* &nbsp; counted as one character).
Spacer(height) ==
  [kind |-> "Spacer", height |-> height, style |-> "", text |-> <<>>,
   colWidths |-> <<>>, rows |-> 0, rowHeights |-> <<>>, cells |-> <<>>,
   fontName |-> "", lines |-> 0, postponed |-> FALSE, pos |-> 0]

Paragraph(text, style) ==
  [kind |-> "Paragraph", height |-> 0, style |-> style, text |-> text,
   colWidths |-> <<>>, rows |-> 0, rowHeights |-> <<>>, cells |-> <<>>,
   fontName |-> styles[style].fontName, lines |-> 0, postponed |-> FALSE, pos |-> 0]

\* rows: number of rows; rowHeights: the declared heights or <<>> for None;
\* cells: the Paragraph cells of the (single) row, <<>> when cells are strings.
Table(rows, cells, colWidths, rowHeights, fontName) ==
  [kind |-> "Table", height |-> 0, style |-> "", text |-> <<>>,
   colWidths |-> colWidths, rows |-> rows, rowHeights |-> rowHeights,
   cells |-> cells, fontName |-> fontName, lines |-> 0, postponed |-> FALSE, pos |-> 0]

PageBreak ==
  [kind |-> "PageBreak", height |-> 0, style |-> "", text |-> <<>>,
   colWidths |-> <<>>, rows |-> 0, rowHeights |-> <<>>, cells |-> <<>>,
   fontName |-> "", lines |-> 0, postponed |-> FALSE, pos |-> 0]

\* ---- lines 86-105: cover page ----
title == Paragraph(<< 15, 26 >>, "cover_title")
subtitle == Paragraph(<< 43 >>, "subtitle")
desc == Paragraph(<< 148 >>, "normal")
crest_box == Table(1, <<>>, <<160 * mm>>, <<40 * mm>>, "Helvetica")

\* ---- lines 108-126: table of contents ----
toc_text ==
  << 23, 21, 23, 23,
     27, 28, 24, 24,
     23, 28, 22, 11,
     20, 50 >>

\* ---- lines 129-145: chapter 1 ----
lore == << 134 >>
col1 == Paragraph(<< 132 >>, "normal")
col2 == Paragraph(<< 128 >>, "normal")
\* variant: a first column 10 mm wider
table_wide == Table(1, <<col1, col2>>, <<95 * mm, 85 * mm>>, <<>>, "Helvetica")
table == Table(1, <<col1, col2>>, <<85 * mm, 85 * mm>>, <<>>, "Helvetica")

\* ---- lines 148-173: chapter 2 ----
bg_table == Table(5, <<>>, <<60 * mm, 100 * mm>>, <<>>, "SourceSans")
cep_text ==
  << 164 >>

\* ---- lines 176-218: chapter 4 ----
ctu_desc == << 109 >>
ctu_table == Table(6, <<>>, <<25 * mm, 100 * mm, 30 * mm>>, <<>>, "SourceSans")
tech_table == Table(5, <<>>, <<50 * mm, 70 * mm, 35 * mm>>, <<>>, "SourceSans")

\* ---- lines 221-243: sample characters ----
yuji_text ==
  << 326 >>
gojo_text ==
  << 196 >>

\* ---- lines 246-268: starter module, bestiary, index ----
adv_text == << 109 >>
hc_text == << 124 >>
index_text == << 86 >>

\* ---- lines 84-268: the content sequence, in append order ----
Content ==
  << Spacer(40 * mm), title, Spacer(10 * mm), subtitle, Spacer(8 * mm),
     Spacer(12 * mm), desc, Spacer(20 * mm), crest_box, PageBreak,
     Paragraph(<< 17 >>, "h1"), Paragraph(toc_text, "toc"), PageBreak,
     Paragraph(<< 31 >>, "h1"), Paragraph(lore, "normal"),
     Spacer(6 * mm), table, PageBreak,
     Paragraph(<< 29 >>, "h1"), Paragraph(<< 11 >>, "h2"),
     bg_table, Spacer(6 * mm), Paragraph(<< 26 >>, "h2"),
     Paragraph(cep_text, "normal"), PageBreak,
     Paragraph(<< 31 >>, "h1"), Paragraph(<< 25 >>, "h2"),
     Paragraph(ctu_desc, "normal"), ctu_table, Spacer(6 * mm),
     Paragraph(<< 28 >>, "h2"), tech_table, PageBreak,
     Paragraph(<< 27 >>, "h1"), Paragraph(<< 24 >>, "h2"),
     Paragraph(yuji_text, "normal"), Spacer(6 * mm),
     Paragraph(<< 36 >>, "h2"), Paragraph(gojo_text, "normal"),
     PageBreak,
     Paragraph(<< 44 >>, "h1"), Paragraph(<< 17 >>, "h2"),
     Paragraph(adv_text, "normal"), Spacer(6 * mm), PageBreak,
     Paragraph(<< 25 >>, "h1"), Paragraph(<< 20 >>, "h2"),
     Paragraph(hc_text, "normal"), PageBreak,
     Paragraph(<< 5 >>, "h1"), Paragraph(index_text, "normal") >>

\* ---- text measurement (Paragraph.wrap), from the metrics of the font ----
Max(a, b) == IF a >= b THEN a ELSE b

\* Width of a glyph in thousandths of the font size: the files at the fixed
\* paths decide it, so the class is part of the environment of a run.
GlyphEm(scale) == 600 * 2 ^ (scale - 1)

\* Characters that fit on a line of the given width (at least one is placed).
MaxChars(width, fontSize, scale) ==
  Max(1, (width * 1000) \div (fontSize * pt * GlyphEm(scale)))

\* Lines one segment takes: its characters flow into lines of maxChars
\* characters; an empty segment still takes a line.
BreakLines(chars, maxChars) == Max(1, (chars + maxChars - 1) \div maxChars)

RECURSIVE ParaLines(_, _)
ParaLines(text, maxChars) ==
  IF text = <<>> THEN 0
  ELSE BreakLines(Head(text), maxChars) + ParaLines(Tail(text), maxChars)

\* Lines of a paragraph flowable; a part produced by a split carries its own
\* line count.
Lines(f, width, scale) ==
  IF f.lines > 0 THEN f.lines
  ELSE ParaLines(f.text, MaxChars(width, styles[f.style].fontSize, scale))

\* Table cells: 6 pt left and right padding, 3 pt top and bottom padding,
\* 12 pt leading for string cells (the library's cell defaults; the
\* FONTSIZE commands of lines 163, 195, 215 leave the leading alone).
CellHeight(cell, colWidth, scale) ==
  Lines(cell, colWidth - 12 * pt, scale) * styles[cell.style].leading

RECURSIVE MaxCellHeight(_, _, _)
MaxCellHeight(cells, colWidths, scale) ==
  IF cells = <<>> THEN 0
  ELSE Max(CellHeight(Head(cells), Head(colWidths), scale),
           MaxCellHeight(Tail(cells), Tail(colWidths), scale))

RowHeight(f, scale) ==
  IF f.rowHeights # <<>> THEN f.rowHeights[1]
  ELSE IF f.cells # <<>> THEN MaxCellHeight(f.cells, f.colWidths, scale) + 6 * pt
  ELSE 12 * pt + 6 * pt

\* flowable.wrap: the height the flowable needs in the frame.
Height(f, scale) ==
  CASE f.kind = "Spacer" -> f.height
    [] f.kind = "Paragraph" -> Lines(f, FrameWidth, scale) * styles[f.style].leading
    [] f.kind = "Table" -> f.rows * RowHeight(f, scale)
    [] OTHER -> 0

SpaceBefore(f) == IF f.kind = "Paragraph" THEN styles[f.style].spaceBefore ELSE 0
SpaceAfter(f) == IF f.kind = "Paragraph" THEN styles[f.style].spaceAfter ELSE 0

\* flowable.split(availWidth, availHeight): <<>> when the flowable cannot be
\* split in the height left, otherwise the part that fits and the rest.
\* A paragraph never leaves a single line behind (allowOrphans = 0), a table
\* splits between rows, a spacer does not split.
Split(f, avail, scale) ==
  CASE f.kind = "Paragraph" ->
         LET n == Lines(f, FrameWidth, scale)
             s == IF avail <= 0 THEN 0 ELSE avail \div styles[f.style].leading
         IN IF s <= 1 \/ n <= s THEN <<>>
            ELSE << [f EXCEPT !.lines = s, !.postponed = FALSE],
                    [f EXCEPT !.lines = n - s, !.postponed = FALSE] >>
    [] f.kind = "Table" ->
         LET k == IF avail <= 0 THEN 0 ELSE avail \div RowHeight(f, scale)
         IN IF k = 0 \/ f.rows <= k THEN <<>>
            ELSE << [f EXCEPT !.rows = k, !.postponed = FALSE],
                    [f EXCEPT !.rows = f.rows - k, !.postponed = FALSE] >>
    [] OTHER -> <<>>

\* ---- lines 48-60 and 271-277: the page decorator ----
DrawOp(op, lo, hi, text) == [op |-> op, lo |-> lo, hi |-> hi, text |-> text, pos |-> 0]

\* Half of the 0.8 pt line width, rounded up.
HalfLine == 51

\* variant: the stamp counts pages from 0
header_footer_zero_based(page_num) ==
  << DrawOp("line", PAGE_HEIGHT - 18 * mm - HalfLine, PAGE_HEIGHT - 18 * mm + HalfLine, 0),
     DrawOp("line", 18 * mm - HalfLine, 18 * mm + HalfLine, 0),
     DrawOp("drawRightString", 12 * mm - 9 * pt, 12 * mm + 9 * pt, page_num - 1) >>

\* variant: the accent lines 28 mm from the edges, inside the frame
header_footer_inside(page_num) ==
  << DrawOp("line", PAGE_HEIGHT - 28 * mm - HalfLine, PAGE_HEIGHT - 28 * mm + HalfLine, 0),
     DrawOp("line", 28 * mm - HalfLine, 28 * mm + HalfLine, 0),
     DrawOp("drawRightString", 12 * mm - 9 * pt, 12 * mm + 9 * pt, page_num) >>

header_footer(page_num) ==
  << DrawOp("line", PAGE_HEIGHT - 18 * mm - HalfLine, PAGE_HEIGHT - 18 * mm + HalfLine, 0),
     DrawOp("line", 18 * mm - HalfLine, 18 * mm + HalfLine, 0),
     DrawOp("drawRightString", 12 * mm - 9 * pt, 12 * mm + 9 * pt, page_num) >>

on_page(page_num) ==
  << DrawOp("rect", 0, PAGE_HEIGHT, 0) >> \o header_footer(page_num)

\* line 279: the callbacks handed to build for the two page templates.
onFirstPage == "on_page"
\* variant: build called without onLaterPages (the library default)
onLaterPages_default == "_doNothing"
onLaterPages == "on_page"

\* Font names the decorator and the flowables resolve at draw time.
KnownFont(name, registered) == name \in registered \cup StandardFonts

\* The first flowable construction that resolves an unknown font name
\* raises (Paragraph parses its text with the style's font when built).
ParagraphsConstructible(registered) ==
  \A i \in DOMAIN Content :
     Content[i].kind = "Paragraph" => KnownFont(Content[i].fontName, registered)

FlowableDrawable(f, registered) ==
  f.kind \in {"Spacer", "PageBreak"} \/ KnownFont(f.fontName, registered)

VARIABLES
  fontFiles,      \* font files present at the fixed paths (environment)
  glyphScale,     \* glyph-width class of those files (environment)
  diskWritable,   \* whether OUT_PDF can be written (environment)
  pc,             \* position of the script
  status,         \* "Unbuilt", "Building", "Built", "Failed"
  registered,     \* pdfmetrics: registered font names
  elements,       \* the script's content list
  flowables,      \* build: flowables still to place
  hanging,        \* build: a page begin is pending
  page,           \* doc.page
  pageNumber,     \* canvas page number
  template,       \* current page template, "First" or "Later"
  y,              \* frame: current vertical position
  atTop,          \* frame: nothing placed yet
  curOps,         \* drawing operations of the page under construction
  pages,          \* finished pages, each a sequence of drawing operations
  autoBreaks,     \* page breaks forced by overflow so far
  decorCalls,     \* invocations of on_page so far
  buildCalls,     \* invocations of doc.build so far
  outFile,        \* content of OUT_PDF on disk, <<"none">> when absent
  message,        \* whether the completion message was printed
  error,          \* the uncaught exception that ended the script, "" if none
  run,            \* number of the current run of the script
  prevRun         \* environment and outcome of the previous run

env == <<fontFiles, glyphScale, diskWritable>>
prog == <<pc, status, registered, elements, buildCalls, message, error>>
engine == <<flowables, hanging, page, pageNumber, template, y, atTop, curOps,
            pages, autoBreaks, decorCalls>>
vars == <<env, prog, engine, outFile, run, prevRun>>

NoFile == <<"none">>
NoRun == [files |-> {}, scale |-> 0, writable |-> FALSE, status |-> "none",
          doc |-> NoFile, message |-> FALSE]

Fresh ==
  /\ pc = "fonts" /\ status = "Unbuilt" /\ registered = {} /\ elements = <<>>
  /\ buildCalls = 0 /\ message = FALSE /\ error = ""
  /\ flowables = <<>> /\ hanging = FALSE /\ page = 0 /\ pageNumber = 0
  /\ template = "First" /\ y = 0 /\ atTop = FALSE /\ curOps = <<>>
  /\ pages = <<>> /\ autoBreaks = 0 /\ decorCalls = 0

Init ==
  /\ fontFiles \in SUBSET AllFontFiles
  /\ glyphScale \in 1..MaxGlyphScale
  /\ diskWritable \in BOOLEAN
  /\ Fresh
  /\ outFile = NoFile /\ run = 1 /\ prevRun = NoRun

\* ---- the script, statement by statement ----

\* lines 30-36
RegisterFontsStep ==
  /\ pc = "fonts"
  /\ registered' = RegisterFonts(fontFiles)
  /\ pc' = "configure"
  /\ UNCHANGED <<env, status, elements, buildCalls, message, error, engine, outFile, run, prevRun>>

\* lines 63-81: the document template and the style registry are created;
\* neither touches the file system nor resolves a font.
Configure ==
  /\ pc = "configure"
  /\ pc' = "content"
  /\ UNCHANGED <<env, status, registered, elements, buildCalls, message, error, engine,
                 outFile, run, prevRun>>

\* Position of the first paragraph whose font name cannot be resolved.
FirstBad(reg) ==
  CHOOSE i \in DOMAIN Content :
     /\ Content[i].kind = "Paragraph" /\ ~KnownFont(Content[i].fontName, reg)
     /\ \A j \in 1..(i - 1) :
          Content[j].kind = "Paragraph" => KnownFont(Content[j].fontName, reg)

\* lines 84-268: the flowables are constructed and appended in order; the
\* construction of a paragraph with an unresolvable font raises and the
\* script ends there.
BuildElements ==
  /\ pc = "content"
  /\ IF ParagraphsConstructible(registered)
     THEN /\ elements' = Content
          /\ pc' = "build"
          /\ UNCHANGED <<status, error>>
     ELSE /\ elements' = SubSeq(Content, 1, FirstBad(registered) - 1)
          /\ pc' = "crashed"
          /\ status' = "Failed"
          /\ error' = "ValueError"
  /\ UNCHANGED <<env, registered, buildCalls, message, engine, outFile, run, prevRun>>

\* ---- line 279: doc.build(elements, onFirstPage=on_page, onLaterPages=on_page) ----

\* build is entered: a canvas on page 1, the first page begin pending.
DocBuild ==
  /\ pc = "build"
  /\ pc' = "building"
  /\ status' = "Building"
  /\ buildCalls' = buildCalls + 1
  /\ flowables' = [i \in DOMAIN elements |-> [elements[i] EXCEPT !.pos = i]]
  /\ hanging' = TRUE
  /\ page' = 0
  /\ pageNumber' = 1
  /\ template' = "First"
  /\ UNCHANGED <<env, registered, elements, message, error, y, atTop, curOps, pages,
                 autoBreaks, decorCalls, outFile, run, prevRun>>

\* handle_pageBegin: the page template's onPage callback paints on the empty
\* page, the frame is reset, later pages use the 'Later' template.
HandlePageBegin ==
  /\ pc = "building" /\ hanging
  /\ LET cb == IF template = "First" THEN onFirstPage ELSE onLaterPages IN
     IF cb = "on_page" /\ ~KnownFont("SourceSans", registered)
     THEN /\ pc' = "crashed" /\ status' = "Failed" /\ error' = "KeyError"
          /\ UNCHANGED <<hanging, page, template, y, atTop, curOps, decorCalls>>
     ELSE /\ page' = page + 1
          /\ curOps' = IF cb = "on_page" THEN on_page(pageNumber) ELSE <<>>
          /\ decorCalls' = IF cb = "on_page" THEN decorCalls + 1 ELSE decorCalls
          /\ y' = FrameTop
          /\ atTop' = TRUE
          /\ hanging' = FALSE
          /\ template' = "Later"
          /\ UNCHANGED <<pc, status, error>>
  /\ UNCHANGED <<env, registered, elements, buildCalls, message, flowables,
                 pageNumber, pages, autoBreaks, outFile, run, prevRun>>

\* Frame._add: space before is dropped at the top of the frame; the flowable
\* fits when some height is left and its bottom stays inside the frame.
SpaceAbove(f) == IF atTop THEN 0 ELSE SpaceBefore(f)
Fits(f) ==
  /\ y - FrameBottom - SpaceAbove(f) > 0
  /\ y - SpaceAbove(f) - Height(f, glyphScale) >= FrameBottom

\* The flowable is drawn at the current position and the position advances.
Place(f) ==
  LET top == y - SpaceAbove(f)
      bot == top - Height(f, glyphScale)
  IN /\ curOps' = Append(curOps, [op |-> "flowable", lo |-> bot, hi |-> top,
                                  text |-> 0, pos |-> f.pos])
     /\ y' = bot - SpaceAfter(f)
     /\ atTop' = IF bot - SpaceAfter(f) # y THEN FALSE ELSE atTop

\* handle_pageEnd: the page is emitted (canvas.showPage) and a page begin is
\* left pending.
PageEnd ==
  /\ pages' = Append(pages, curOps)
  /\ curOps' = <<>>
  /\ pageNumber' = pageNumber + 1
  /\ hanging' = TRUE

Placing == pc = "building" /\ ~hanging /\ flowables # <<>>

\* variant: the marker is consumed without ending the page
HandlePageBreak_ignored ==
  /\ Placing /\ Head(flowables).kind = "PageBreak"
  /\ flowables' = Tail(flowables)
  /\ UNCHANGED <<env, prog, hanging, page, pageNumber, template, y, atTop, curOps,
                 pages, autoBreaks, decorCalls, outFile, run, prevRun>>

\* handle_flowable, PageBreak: the current page ends.
HandlePageBreak ==
  /\ Placing /\ Head(flowables).kind = "PageBreak"
  /\ PageEnd
  /\ flowables' = Tail(flowables)
  /\ UNCHANGED <<env, prog, page, template, y, atTop, autoBreaks, decorCalls,
                 outFile, run, prevRun>>

\* handle_flowable, frame.add succeeds.
AddFlowable ==
  /\ Placing /\ Head(flowables).kind # "PageBreak"
  /\ Fits(Head(flowables))
  /\ IF FlowableDrawable(Head(flowables), registered)
     THEN /\ Place(Head(flowables))
          /\ flowables' = Tail(flowables)
          /\ UNCHANGED <<pc, status, error>>
     ELSE /\ pc' = "crashed" /\ status' = "Failed" /\ error' = "KeyError"
          /\ UNCHANGED <<curOps, y, atTop, flowables>>
  /\ UNCHANGED <<env, registered, elements, buildCalls, message, hanging, page,
                 pageNumber, template, pages, autoBreaks, decorCalls, outFile,
                 run, prevRun>>

SplitOf(f) == Split(f, y - FrameBottom - SpaceAbove(f), glyphScale)

\* handle_flowable, frame.add fails and the flowable splits: the first part
\* is placed on this page, the rest goes back to the head of the list.
SplitFlowable ==
  /\ Placing /\ Head(flowables).kind # "PageBreak"
  /\ ~Fits(Head(flowables))
  /\ SplitOf(Head(flowables)) # <<>>
  /\ Place(SplitOf(Head(flowables))[1])
  /\ flowables' = <<SplitOf(Head(flowables))[2]>> \o Tail(flowables)
  /\ UNCHANGED <<env, prog, hanging, page, pageNumber, template, pages,
                 autoBreaks, decorCalls, outFile, run, prevRun>>

\* handle_flowable, frame.add fails and nothing can be split off: the
\* flowable is put back and the frame (hence the page) ends; a flowable that
\* was already put back once is too large for an empty frame (LayoutError).
PostponeFlowable ==
  /\ Placing /\ Head(flowables).kind # "PageBreak"
  /\ ~Fits(Head(flowables))
  /\ SplitOf(Head(flowables)) = <<>>
  /\ IF Head(flowables).postponed
     THEN /\ pc' = "crashed" /\ status' = "Failed" /\ error' = "LayoutError"
          /\ UNCHANGED <<flowables, pages, curOps, pageNumber, hanging, autoBreaks>>
     ELSE /\ flowables' = <<[Head(flowables) EXCEPT !.postponed = TRUE]>>
                             \o Tail(flowables)
          /\ PageEnd
          /\ autoBreaks' = autoBreaks + 1
          /\ UNCHANGED <<pc, status, error>>
  /\ UNCHANGED <<env, registered, elements, buildCalls, message, page, template,
                 y, atTop, decorCalls, outFile, run, prevRun>>

\* variant: the page under construction is never emitted at the end
EndBuild_nolast ==
  /\ pc = "building" /\ flowables = <<>>
  /\ hanging' = FALSE
  /\ pc' = "saving"
  /\ UNCHANGED <<env, status, registered, elements, buildCalls, message, error,
                 flowables, page, pageNumber, template, y, atTop, curOps, pages,
                 autoBreaks, decorCalls, outFile, run, prevRun>>

\* _endBuild: a pending page begin is dropped, otherwise the last page ends.
EndBuild ==
  /\ pc = "building" /\ flowables = <<>>
  /\ IF hanging
     THEN /\ hanging' = FALSE
          /\ UNCHANGED <<pages, curOps, pageNumber>>
     ELSE /\ PageEnd
  /\ pc' = "saving"
  /\ UNCHANGED <<env, status, registered, elements, buildCalls, message, error,
                 flowables, page, template, y, atTop, autoBreaks, decorCalls,
                 outFile, run, prevRun>>

\* variant: the document is appended to what OUT_PDF already holds
Save_append ==
  /\ pc = "saving" /\ diskWritable
  /\ outFile' = IF outFile = NoFile THEN pages ELSE outFile \o pages
  /\ status' = "Built"
  /\ pc' = "print"
  /\ UNCHANGED <<env, registered, elements, buildCalls, message, error, engine, run, prevRun>>

\* canvas.save: the document is written to OUT_PDF in one piece, replacing
\* what was there, and build returns.
Save ==
  /\ pc = "saving" /\ diskWritable
  /\ outFile' = pages
  /\ status' = "Built"
  /\ pc' = "print"
  /\ UNCHANGED <<env, registered, elements, buildCalls, message, error, engine, run, prevRun>>

\* canvas.save cannot open OUT_PDF: the I/O error leaves build and the script.
SaveError ==
  /\ pc = "saving" /\ ~diskWritable
  /\ status' = "Failed"
  /\ pc' = "crashed"
  /\ error' = "IOError"
  /\ UNCHANGED <<env, registered, elements, buildCalls, message, engine, outFile,
                 run, prevRun>>

\* line 281
PrintDone ==
  /\ pc = "print"
  /\ message' = TRUE
  /\ pc' = "exit"
  /\ UNCHANGED <<env, status, registered, elements, buildCalls, error, engine, outFile,
                 run, prevRun>>

Terminated == pc \in {"exit", "crashed"}

Next ==
  \/ RegisterFontsStep
  \/ Configure
  \/ BuildElements
  \/ DocBuild
  \/ HandlePageBegin
  \/ HandlePageBreak
  \/ AddFlowable
  \/ SplitFlowable
  \/ PostponeFlowable
  \/ EndBuild
  \/ Save
  \/ SaveError
  \/ PrintDone

Spec == Init /\ [][Next]_vars

\* ---- the script run again ("python3 jkj_handbook_generator.py"): a new
\* process in a possibly different environment; only the disk survives. ----
Rerun ==
  /\ Terminated /\ run = 1
  /\ prevRun' = [files |-> fontFiles, scale |-> glyphScale, writable |-> diskWritable,
                 status |-> status,
                 doc |-> IF status = "Built" THEN outFile ELSE NoFile,
                 message |-> message]
  /\ run' = run + 1
  /\ fontFiles' \in SUBSET AllFontFiles
  /\ glyphScale' \in 1..MaxGlyphScale
  /\ diskWritable' \in BOOLEAN
  /\ pc' = "fonts" /\ status' = "Unbuilt" /\ registered' = {} /\ elements' = <<>>
  /\ buildCalls' = 0 /\ message' = FALSE /\ error' = ""
  /\ flowables' = <<>> /\ hanging' = FALSE /\ page' = 0 /\ pageNumber' = 0
  /\ template' = "First" /\ y' = 0 /\ atTop' = FALSE /\ curOps' = <<>>
  /\ pages' = <<>> /\ autoBreaks' = 0 /\ decorCalls' = 0
  /\ UNCHANGED outFile

NextRuns == Next \/ Rerun

SpecRuns == Init /\ [][NextRuns]_vars

\* ---- derived views of the document ----

\* Pages begun so far: the finished ones and the one under construction.
AllPages == IF page > Len(pages) THEN Append(pages, curOps) ELSE pages

IsStamp(o) == o.op = "drawRightString"
IsRect(o) == o.op = "rect"
IsFlowable(o) == o.op = "flowable"
IsFurniture(o) == o.op \in {"line", "drawRightString"}

\* Positions (in elements) of the flowables drawn on a page.
FlowPos(ops) == { ops[j].pos : j \in { i \in DOMAIN ops : IsFlowable(ops[i]) } }

\* <<position in elements, page>> of every flowable (or part of one) drawn.
Placements ==
  UNION { { <<q, k>> : q \in FlowPos(AllPages[k]) } : k \in DOMAIN AllPages }

PageBreakPositions(seq) == { i \in DOMAIN seq : seq[i].kind = "PageBreak" }

RECURSIVE Sum(_)
Sum(seq) == IF seq = <<>> THEN 0 ELSE Head(seq) + Sum(Tail(seq))

IsTable(f) == f.kind = "Table"
TableWidthSums(seq) ==
  LET tables == SelectSeq(seq, IsTable)
  IN [i \in DOMAIN tables |-> Sum(tables[i].colWidths)]

\* The document the current run produced, if any.
RunDoc == IF status = "Built" THEN outFile ELSE NoFile

SameEnvironment ==
  /\ fontFiles = prevRun.files
  /\ glyphScale = prevRun.scale
  /\ diskWritable = prevRun.writable

\* ---- C1 ----
\* C1: when a declared font file is missing, the run still ends Built with
\* the output document written (runs ended by a layout or I/O error aside).
C1_MissingFontStillBuilds ==
  (Terminated /\ fontFiles # AllFontFiles /\ error \notin {"LayoutError", "IOError"})
     => (status = "Built" /\ outFile # NoFile)

\* ---- C2 ----
\* C2: every page begun so far carries one page-number stamp, and the stamp
\* on the k-th page reads exactly k.
C2_PageNumberStamps ==
  \A k \in DOMAIN AllPages :
     LET st == SelectSeq(AllPages[k], IsStamp)
     IN Len(st) = 1 /\ st[1].text = k

C2_Witness == status = "Built" /\ Len(outFile) >= 10

\* ---- C3 ----
\* C3: for every PageBreak at position i, every flowable before i is drawn
\* on a strictly smaller page than every flowable after i.
C3_PageBreakSeparates ==
  \A i \in PageBreakPositions(elements) :
     \A a, b \in Placements : (a[1] < i /\ i < b[1]) => a[2] < b[2]

\* Built, with a flowable split over two pages by an automatic break.
C3_Witness ==
  /\ status = "Built" /\ autoBreaks > 0
  /\ \E a, b \in Placements : a[1] = b[1] /\ a[2] < b[2]

\* ---- C4 ----
\* C4: at completion the page count is the number of automatic breaks plus
\* the number of PageBreak markers (8 in the content) plus one.
C4_PageCount ==
  status = "Built" =>
     /\ Cardinality(PageBreakPositions(elements)) = 8
     /\ Len(outFile) = autoBreaks + Cardinality(PageBreakPositions(elements)) + 1

\* Built, with an automatic break right before a PageBreak: a page holds only
\* the flowable that precedes the marker, moved or continued from the page
\* before.
C4_Witness ==
  /\ status = "Built" /\ autoBreaks > 0
  /\ \E k \in 2..Len(outFile) : \E q \in FlowPos(outFile[k]) :
        /\ FlowPos(outFile[k]) = {q}
        /\ q + 1 \in PageBreakPositions(elements)
        /\ FlowPos(outFile[k - 1]) \cap {q - 1, q} # {}

\* ---- C6 ----
\* C6: the decorator has run once for every page begun, every page holds
\* exactly one background fill, and at completion the number of decorator
\* invocations equals the page count.
C6_DecoratorOncePerPage ==
  /\ decorCalls = page
  /\ \A k \in DOMAIN AllPages : Len(SelectSeq(AllPages[k], IsRect)) = 1
  /\ status = "Built" => decorCalls = Len(outFile)

C6_Witness == status = "Built" /\ decorCalls >= 12 /\ template = "Later"

\* ---- C7 ----
\* C7: every step follows Unbuilt -> Building -> Built | Failed with no way
\* back, a terminal state is entered after exactly one call of build, and
\* the output file and the completion message exist only in Built.
LifecycleEdges ==
  { <<"Unbuilt", "Unbuilt">>, <<"Unbuilt", "Building">>, <<"Building", "Building">>,
    <<"Building", "Built">>, <<"Building", "Failed">>, <<"Built", "Built">>,
    <<"Failed", "Failed">> }

C7_Lifecycle ==
  [][ /\ <<status, status'>> \in LifecycleEdges
      /\ buildCalls' <= 1
      /\ status' \in {"Built", "Failed"} => buildCalls' = 1
      /\ (outFile' # NoFile \/ message') => status' = "Built" ]_vars

C9_MarksOutsideContent ==
  \A k \in DOMAIN AllPages :
     LET ops == AllPages[k] IN
     /\ ops # <<>> /\ IsRect(ops[1]) /\ ops[1].lo = 0 /\ ops[1].hi = PAGE_HEIGHT
     /\ \A i, j \in DOMAIN ops : (IsRect(ops[i]) /\ IsFlowable(ops[j])) => i < j
     /\ \E j \in DOMAIN ops : ops[j].op = "line" /\ ops[j].lo <= 18 * mm /\ 18 * mm <= ops[j].hi
     /\ \E j \in DOMAIN ops :
           ops[j].op = "line" /\ ops[j].lo <= PAGE_HEIGHT - 18 * mm
                              /\ PAGE_HEIGHT - 18 * mm <= ops[j].hi
     /\ \E j \in DOMAIN ops : IsStamp(ops[j]) /\ ops[j].lo <= 12 * mm /\ 12 * mm <= ops[j].hi
     /\ \A j \in DOMAIN ops :
           IsFurniture(ops[j]) =>
              \/ 0 <= ops[j].lo /\ ops[j].hi <= bottomMargin
              \/ PAGE_HEIGHT - topMargin <= ops[j].lo /\ ops[j].hi <= PAGE_HEIGHT
     /\ \A j \in DOMAIN ops :
           IsFlowable(ops[j]) =>
              bottomMargin <= ops[j].lo /\ ops[j].hi <= PAGE_HEIGHT - topMargin

\* Built, with a page filled down to less than 10 mm above the bottom band.
C9_Witness ==
  /\ status = "Built"
  /\ \E k \in DOMAIN outFile : \E j \in DOMAIN outFile[k] :
        IsFlowable(outFile[k][j]) /\ outFile[k][j].lo < bottomMargin + 10 * mm

\* ---- C10 ----
\* C10: no table of the content is wider than the usable width of 170 mm;
\* the column widths of the five tables sum to 160, 170, 160, 155, 155 mm.
C10_TableWidths ==
  /\ UsableWidth = 170 * mm
  /\ \A i \in DOMAIN elements :
        IsTable(elements[i]) => Sum(elements[i].colWidths) <= UsableWidth
  /\ buildCalls = 1 =>
        TableWidthSums(elements) = <<160 * mm, 170 * mm, 160 * mm, 155 * mm, 155 * mm>>

\* Built from the content whose second table is exactly as wide as the limit.
C10_Witness ==
  /\ status = "Built" /\ Len(TableWidthSums(elements)) = 5
  /\ TableWidthSums(elements)[2] = UsableWidth

====
